---- MODULE Spec2Model ----
(***************************************************************************)
(* A model of the create_vox crate: the voxel grid operations of Model     *)
(* (src/src/model.rs), the chunk scanners find_chunk / num_of_chunks and   *)
(* the record readers and writers VoxString, Dict, nTRN, nGRP, nSHP and    *)
(* MATL (src/src/riff.rs), and the scene-graph build / reconciliation of   *)
(* VoxFile (src/src/voxfile/voxfile.rs).                                   *)
(*                                                                         *)
(* Option<T> is modelled as a sequence: None is << >>, Some(v) is <<v>>.   *)
(* A panic is an outcome of its own ("Panic"); after it the run is over.   *)
(* Arithmetic on u8 and u16 overflows as rustc builds it: a panic when     *)
(* overflow checks are compiled in (debug), a wrap otherwise (release).    *)
(* The profile is the variable overflow_checks, chosen once in Init.       *)
(***************************************************************************)
EXTENDS Integers, Sequences, FiniteSets, TLC

VARIABLES
    overflow_checks,  \* build profile: TRUE = overflow panics, FALSE = overflow wraps
    op,               \* name of the last operation executed
    result,           \* its outcome: "None" | "Ok" | "Err" | "Panic"
    size,             \* Model.size
    voxels,           \* Model.voxels
    contents,         \* the byte buffer handed to find_chunk / num_of_chunks
    find_call,        \* last find_chunk call: [name, number, result]
    count_call,       \* last num_of_chunks call: [name, result]
    models,           \* VoxFile.models
    palette,          \* VoxFile.palette
    root_node,        \* VoxFile.root_node
    layers,           \* VoxFile.layers
    runs,             \* get_node_data runs in a row since anything else ran (0, 1, 2 = two or more)
    cursor,           \* the read cursor into contents handed to the record readers
    record,           \* the record last read or built: None or Some([type, v])
    output,           \* the bytes written to the output stream so far
    marks             \* the offsets in output at which the records written so far start

vars == <<overflow_checks, op, result, size, voxels, contents, find_call,
          count_call, models, palette, root_node, layers, runs,
          cursor, record, output, marks>>

modelVars == <<size, voxels>>
riffVars == <<contents, find_call, count_call>>
voxVars == <<models, palette, root_node, layers, runs>>
codecVars == <<cursor, record, output, marks>>

----------------------------------------------------------------------------
(* Bounds of the model *)

MaxVoxels == 2
MaxModels == 2
MaxChunks == 2
MaxWrites == 1

(* Widths of the integer types *)

U8Max == 255
U16Max == 65535
MaxSize == 256

(* Sample inputs: the edges of u8 on every axis, and extents around them *)
Positions ==
    {<<0, 0, 0>>, <<1, 0, 0>>, <<0, 1, 0>>, <<0, 0, 1>>, <<1, 1, 1>>,
     <<U8Max, 0, 0>>, <<0, U8Max, 0>>, <<0, 0, U8Max>>, <<2, 0, 0>>}
Sizes ==
    {<<0, 1, 1>>, <<1, 1, 1>>, <<2, 2, 2>>, <<2, 1, 2>>, <<2, 2, 1>>, <<1, 2, 2>>,
     <<MaxSize, MaxSize, MaxSize>>, <<10, 10, 10>>}
IndexVals == {0, 1}
RetainIndexVals == {1, 2}
Cubes ==
    {<<s, e>> : s \in {<<0, 0, 0>>, <<1, 0, 0>>},
                e \in {<<0, 0, 0>>, <<1, 1, 1>>, <<2, 1, 1>>, <<1, 2, 1>>,
                        <<1, 1, 2>>, <<3, 1, 1>>}}

None == << >>
Some(v) == <<v>>

----------------------------------------------------------------------------
(* src/src/voxel.rs *)

\* Voxel::new panics on palette index 0
VoxelNewPanics(colorindex_value) == colorindex_value = 0

Voxel(x, y, z, colorindex_value) ==
    [position |-> <<x, y, z>>, color_index |-> colorindex_value]

----------------------------------------------------------------------------
(* src/src/model.rs : bounds check of add_voxel / add_voxel_at_pos *)

\* (p + 1) as u16 > s, with p : u8.  "Panic" | "Err" | "Pass"
AxisCheck(p, s, checks) ==
    IF p + 1 > U8Max /\ checks THEN "Panic"
    ELSE IF ((p + 1) % (U8Max + 1)) > s THEN "Err"
    ELSE "Pass"

\* a || b || c : evaluated left to right, stopping at the first true operand
BoundsCheck(pos, sz, checks) ==
    LET a == AxisCheck(pos[1], sz[1], checks)
        b == AxisCheck(pos[2], sz[2], checks)
        c == AxisCheck(pos[3], sz[3], checks)
    IN  IF a # "Pass" THEN a ELSE IF b # "Pass" THEN b ELSE c

InExtents(pos, sz) == pos[1] < sz[1] /\ pos[2] < sz[2] /\ pos[3] < sz[3]

Running == result # "Panic"

\* Model::add_voxel(new_voxel)
add_voxel(new_voxel) ==
    /\ Running
    /\ Len(voxels) < MaxVoxels
    /\ op' = "add_voxel"
    /\ LET c == BoundsCheck(new_voxel.position, size, overflow_checks)
       IN  /\ result' = IF c = "Pass" THEN "Ok" ELSE c
           /\ voxels' = IF c = "Pass" THEN Append(voxels, new_voxel) ELSE voxels
    /\ UNCHANGED <<overflow_checks, size, riffVars, voxVars, codecVars>>

\* Model::add_voxel_at_pos(x, y, z, voxel_index)
add_voxel_at_pos(x, y, z, voxel_index) ==
    /\ Running
    /\ Len(voxels) < MaxVoxels
    /\ op' = "add_voxel_at_pos"
    /\ LET c == BoundsCheck(<<x, y, z>>, size, overflow_checks)
       IN  IF c # "Pass"
           THEN result' = c /\ voxels' = voxels
           ELSE IF VoxelNewPanics(voxel_index)
           THEN result' = "Panic" /\ voxels' = voxels
           ELSE result' = "Ok" /\ voxels' = Append(voxels, Voxel(x, y, z, voxel_index))
    /\ UNCHANGED <<overflow_checks, size, riffVars, voxVars, codecVars>>

\* Model::clear_voxels
clear_voxels ==
    /\ Running
    /\ op' = "clear_voxels"
    /\ result' = "Ok"
    /\ voxels' = << >>
    /\ UNCHANGED <<overflow_checks, size, riffVars, voxVars, codecVars>>

\* Model::set_size(x, y, z)
set_size(x, y, z) ==
    /\ Running
    /\ op' = "set_size"
    /\ IF x > MaxSize \/ y > MaxSize \/ z > MaxSize
       THEN result' = "Panic" /\ size' = size
       ELSE result' = "Ok" /\ size' = <<x, y, z>>
    /\ UNCHANGED <<overflow_checks, voxels, riffVars, voxVars, codecVars>>

\* Model::retain_voxels(closure); the closures tried are |v| v.color_index == c
retain_voxels(c) ==
    /\ Running
    /\ op' = "retain_voxels"
    /\ result' = "Ok"
    /\ voxels' = SelectSeq(voxels, LAMBDA v : v.color_index = c)
    /\ UNCHANGED <<overflow_checks, size, riffVars, voxVars, codecVars>>

----------------------------------------------------------------------------
(* src/src/model.rs : add_cube *)

Span(a, b) == IF a < b THEN b - a ELSE 0

\* the positions visited by the three nested loops, in visiting order
CubePositions(s, e) ==
    LET ny == Span(s[2], e[2])
        nz == Span(s[3], e[3])
        n  == Span(s[1], e[1]) * ny * nz
    IN  [k \in 1..n |->
            <<s[1] + ((k - 1) \div (ny * nz)),
              s[2] + (((k - 1) \div nz) % ny),
              s[3] + ((k - 1) % nz)>>]

\* the loop body from the i-th position on: Voxel::new, add_voxel, unwrap
RECURSIVE CubeLoop(_, _, _, _, _, _)
CubeLoop(vs, ps, i, sz, checks, colorindex) ==
    IF i > Len(ps) THEN [voxels |-> vs, result |-> "Ok"]
    ELSE IF VoxelNewPanics(colorindex) THEN [voxels |-> vs, result |-> "Panic"]
    ELSE IF BoundsCheck(ps[i], sz, checks) # "Pass"
         THEN [voxels |-> vs, result |-> "Panic"]
    ELSE CubeLoop(Append(vs, Voxel(ps[i][1], ps[i][2], ps[i][3], colorindex)),
                  ps, i + 1, sz, checks, colorindex)

\* the guard in front of the loops: endx is compared with all three extents
CubeTooLarge(e, sz) == e[1] > sz[1] \/ e[1] > sz[2] \/ e[1] > sz[3]

AddCube(vs, sz, s, e, colorindex, checks) ==
    IF CubeTooLarge(e, sz) THEN [voxels |-> vs, result |-> "Err"]
    ELSE CubeLoop(vs, CubePositions(s, e), 1, sz, checks, colorindex)

\* Model::add_cube(startx, starty, startz, endx, endy, endz, colorindex)
add_cube(s, e, colorindex) ==
    /\ Running
    /\ Len(voxels) + Len(CubePositions(s, e)) <= MaxVoxels
    /\ op' = "add_cube"
    /\ LET r == AddCube(voxels, size, s, e, colorindex, overflow_checks)
       IN  result' = r.result /\ voxels' = r.voxels
    /\ UNCHANGED <<overflow_checks, size, riffVars, voxVars, codecVars>>

----------------------------------------------------------------------------
(* src/src/model.rs : auto_size *)

Min2(a, b) == IF a < b THEN a ELSE b

\* first loop: the smallest coordinate on axis k, starting from 255
RECURSIVE SmallestPos(_, _, _, _)
SmallestPos(vs, i, k, acc) ==
    IF i > Len(vs) THEN acc
    ELSE SmallestPos(vs, i + 1, k, Min2(acc, vs[i].position[k]))

\* second loop: every voxel moved by the smallest position
MoveVoxels(vs) ==
    LET m == [k \in 1..3 |-> SmallestPos(vs, 1, k, U8Max)]
    IN  [i \in 1..Len(vs) |->
            [vs[i] EXCEPT !.position = <<vs[i].position[1] - m[1],
                                         vs[i].position[2] - m[2],
                                         vs[i].position[3] - m[3]>>]]

\* third loop on axis k: new_size as u16, -1 when an overflow check panics.
\*   if (p as u16) > new_size - 1 { new_size = (p + 1) as u16 }
RECURSIVE NewSize(_, _, _, _, _)
NewSize(vs, i, k, ns, checks) ==
    IF i > Len(vs) THEN ns
    ELSE LET p == vs[i].position[k]
             less == IF ns = 0 THEN U16Max ELSE ns - 1
         IN  IF ns = 0 /\ checks THEN -1
             ELSE IF p > less
                  THEN IF p + 1 > U8Max /\ checks THEN -1
                       ELSE NewSize(vs, i + 1, k, (p + 1) % (U8Max + 1), checks)
                  ELSE NewSize(vs, i + 1, k, ns, checks)

AutoSize(vs, sz, checks) ==
    LET moved == MoveVoxels(vs)
        ns == [k \in 1..3 |-> NewSize(moved, 1, k, 1, checks)]
    IN  IF \E k \in 1..3 : ns[k] = -1
        THEN [voxels |-> moved, size |-> sz, result |-> "Panic"]
        ELSE [voxels |-> moved, size |-> <<ns[1], ns[2], ns[3]>>, result |-> "Ok"]

\* Model::auto_size
auto_size ==
    /\ Running
    /\ op' = "auto_size"
    /\ LET r == AutoSize(voxels, size, overflow_checks)
       IN  result' = r.result /\ voxels' = r.voxels /\ size' = r.size
    /\ UNCHANGED <<overflow_checks, riffVars, voxVars, codecVars>>

----------------------------------------------------------------------------
(* src/src/riff.rs : find_chunk, num_of_chunks.  A buffer is a sequence of bytes; *)
(* the code's 0-based contents[a..b] is bytes a+1 .. b of the sequence.           *)

\* contents[a..b] panics when b is past the end (or a > b)
SliceOk(b, from, to) == from <= to /\ to <= Len(b)
Slice(b, from, to) == SubSeq(b, from + 1, to)

\* u32::from_le_bytes / u32::to_le_bytes
U32FromLe(b) == b[1] + 256 * b[2] + 65536 * b[3] + 16777216 * b[4]
U32ToLe(n) == <<n % 256, (n \div 256) % 256, (n \div 65536) % 256, (n \div 16777216) % 256>>

\* current_pos and chunk_size are u32.  The buffers tried are a few dozen bytes
\* long and declare sizes below 2^8, so no sum comes near 2^32: u32 addition is
\* plain addition here.

\* String::from_utf8 succeeds exactly on well-formed UTF-8
RECURSIVE Utf8Valid(_, _)
Utf8Valid(b, i) ==
    IF i > Len(b) THEN TRUE
    ELSE LET c == b[i]
             Cont(j, lo, hi) == j <= Len(b) /\ b[j] >= lo /\ b[j] <= hi
         IN  IF c <= 127 THEN Utf8Valid(b, i + 1)
             ELSE IF c >= 194 /\ c <= 223
                  THEN Cont(i + 1, 128, 191) /\ Utf8Valid(b, i + 2)
             ELSE IF c >= 224 /\ c <= 239
                  THEN /\ Cont(i + 1, IF c = 224 THEN 160 ELSE 128,
                                      IF c = 237 THEN 159 ELSE 191)
                       /\ Cont(i + 2, 128, 191)
                       /\ Utf8Valid(b, i + 3)
             ELSE IF c >= 240 /\ c <= 244
                  THEN /\ Cont(i + 1, IF c = 240 THEN 144 ELSE 128,
                                      IF c = 244 THEN 143 ELSE 191)
                       /\ Cont(i + 2, 128, 191)
                       /\ Cont(i + 3, 128, 191)
                       /\ Utf8Valid(b, i + 4)
             ELSE FALSE

FindResult(kind, pos) == [kind |-> kind, pos |-> pos]

\* the while loop of find_chunk, entered with (chunk_name, current_pos, num_chunk)
RECURSIVE FindLoop(_, _, _, _, _, _)
FindLoop(b, name, number, chunk_name, current_pos, num_chunk) ==
    IF ~(chunk_name # name \/ num_chunk # number + 1) THEN FindResult("Err", 0)
    ELSE IF ~SliceOk(b, current_pos, current_pos + 4) THEN FindResult("Panic", 0)
    ELSE IF ~Utf8Valid(Slice(b, current_pos, current_pos + 4), 1) THEN FindResult("Panic", 0)
    ELSE LET cn == Slice(b, current_pos, current_pos + 4)
             nc == IF cn = name THEN num_chunk + 1 ELSE num_chunk
             p4 == current_pos + 4
         IN  IF cn = name /\ num_chunk = number THEN FindResult("Ok", current_pos)
             ELSE IF ~SliceOk(b, p4, p4 + 4) THEN FindResult("Panic", 0)
             ELSE LET chunk_size == U32FromLe(Slice(b, p4, p4 + 4))
                      np == p4 + chunk_size + 8
                  IN  IF np >= Len(b) THEN FindResult("Err", 0)
                      ELSE FindLoop(b, name, number, cn, np, nc)

\* find_chunk(contents, name, number)
FindChunk(b, name, number) == FindLoop(b, name, number, << >>, 8, 1)

CountResult(kind, n) == [kind |-> kind, n |-> n]

\* the while loop of num_of_chunks
RECURSIVE CountLoop(_, _, _, _)
CountLoop(b, name, current_pos, n) ==
    IF ~(current_pos < Len(b)) THEN CountResult("Ok", n)
    ELSE IF ~SliceOk(b, current_pos, current_pos + 4) THEN CountResult("Panic", 0)
    ELSE IF ~Utf8Valid(Slice(b, current_pos, current_pos + 4), 1) THEN CountResult("Panic", 0)
    ELSE LET cn == Slice(b, current_pos, current_pos + 4)
             nn == IF cn = name THEN n + 1 ELSE n
             p4 == current_pos + 4
         IN  IF ~SliceOk(b, p4, p4 + 4) THEN CountResult("Panic", 0)
             ELSE LET chunk_size == U32FromLe(Slice(b, p4, p4 + 4))
                  IN  CountLoop(b, name, p4 + chunk_size + 8, nn)

\* num_of_chunks(contents, name)
NumOfChunks(b, name) == CountLoop(b, name, 8, 0)

\* a call of find_chunk on the buffer
find_chunk(name, number) ==
    /\ op' = "find_chunk"
    /\ LET r == FindChunk(contents, name, number)
       IN  /\ find_call' = [name |-> name, number |-> number, result |-> r.kind,
                            pos |-> r.pos]
           /\ result' = r.kind
    /\ UNCHANGED <<overflow_checks, contents, count_call, modelVars, voxVars, codecVars>>

\* a call of num_of_chunks on the buffer
num_of_chunks(name) ==
    /\ op' = "num_of_chunks"
    /\ LET r == NumOfChunks(contents, name)
       IN  /\ count_call' = [name |-> name, result |-> r.kind, n |-> r.n]
           /\ result' = r.kind
    /\ UNCHANGED <<overflow_checks, contents, find_call, modelVars, voxVars, codecVars>>

(* The buffers tried: the 8-byte outer header, then up to MaxChunks chunks, each a *)
(* 12-byte header (tag, declared content size, children size 0) and its content.   *)

Tag_nTRN == <<110, 84, 82, 78>>
Tag_nGRP == <<110, 71, 82, 80>>
Tag_nSHP == <<110, 83, 72, 80>>
ChunkTags == {Tag_nTRN, Tag_nGRP}
NameVals == {Tag_nTRN, Tag_nSHP}
ContentLens == {0, 1}
DeclaredSizes == {0, 1, 2}

OuterHeader == <<86, 79, 88, 32>> \o U32ToLe(150)

ChunkBytes(tag, declared, len) ==
    tag \o U32ToLe(declared) \o U32ToLe(0) \o [i \in 1..len |-> 0]

ChunkVals ==
    {ChunkBytes(t, d, l) : t \in ChunkTags, d \in DeclaredSizes, l \in ContentLens}

RECURSIVE Buffers(_)
Buffers(k) ==
    IF k = 0 THEN {OuterHeader}
    ELSE Buffers(k - 1) \cup {b \o c : b \in Buffers(k - 1), c \in ChunkVals}

\* the declared sizes tile the buffer: chunk after chunk ends exactly at its end
RECURSIVE TilesFrom(_, _)
TilesFrom(b, pos) ==
    \/ pos = Len(b)
    \/ /\ pos + 12 <= Len(b)
       /\ TilesFrom(b, pos + 12 + U32FromLe(Slice(b, pos + 4, pos + 8)))

----------------------------------------------------------------------------
(* The scene graph.  A node is [node_type, attributes, children]; node_type is   *)
(* [tag, transform, id] with transform = Some(Transform) on a Transform node and *)
(* id = Some(model id) on a Shape node.                                          *)

Transform(layer, rotation, translation) ==
    [layer |-> layer, rotation |-> rotation, translation |-> translation]

\* Transform::default()
TransformDefault == Transform(0, None, None)

NodeTypeTransform(t) == [tag |-> "Transform", transform |-> Some(t), id |-> None]
NodeTypeGroup == [tag |-> "Group", transform |-> None, id |-> None]
NodeTypeShape(id) == [tag |-> "Shape", transform |-> None, id |-> Some(id)]

\* NodeAttributes::new()
NodeAttributesNew == [name |-> None, hidden |-> None]

\* Node::new(node_type, attributes)
NodeNew(node_type, attributes) ==
    [node_type |-> node_type, attributes |-> attributes, children |-> << >>]

\* Node::add_child
AddChild(node, child) == [node EXCEPT !.children = Append(@, child)]

\* Node::has_child_shape: exactly one child, and that child is a Shape
HasChildShape(node) ==
    Len(node.children) = 1 /\ node.children[1].node_type.tag = "Shape"

----------------------------------------------------------------------------
(* src/src/model.rs : Model as the container holds it *)

\* Model::new(x, y, z)
ModelNew(x, y, z) ==
    [size |-> <<x, y, z>>, voxels |-> << >>, position |-> None, rotation |-> None,
     layer |-> None, name |-> None, id |-> 0]

\* Model::read(input, cursor, id): placement unset, the id the caller gives
ModelRead(sz, vs, id) ==
    [size |-> sz, voxels |-> vs, position |-> None, rotation |-> None,
     layer |-> None, name |-> None, id |-> id]

\* Model::transform_data
TransformData(m) ==
    Transform(IF m.layer = None THEN 0 ELSE m.layer[1], m.rotation, m.position)

\* Model::to_node
ToNode(m) ==
    AddChild(NodeNew(NodeTypeTransform(TransformData(m)),
                     [NodeAttributesNew EXCEPT !.name = m.name]),
             NodeNew(NodeTypeShape(m.id), NodeAttributesNew))

----------------------------------------------------------------------------
(* src/src/voxfile/voxfile.rs *)

\* the for loop of make_nodes: one child per model, in list order
RECURSIVE AddModelNodes(_, _, _)
AddModelNodes(group_node, ms, i) ==
    IF i > Len(ms) THEN group_node
    ELSE AddModelNodes(AddChild(group_node, ToNode(ms[i])), ms, i + 1)

\* a make_nodes that keeps the nodes of the root it finds
MakeNodesExtending(old_root, ms) ==
    AddChild(old_root, AddModelNodes(NodeNew(NodeTypeGroup, NodeAttributesNew), ms, 1))

\* the root node make_nodes installs
MakeNodes(old_root, ms) ==
    AddChild(NodeNew(NodeTypeTransform(TransformDefault), NodeAttributesNew),
             AddModelNodes(NodeNew(NodeTypeGroup, NodeAttributesNew), ms, 1))

\* a check_transform that looks at the first child without has_child_shape
CheckTransformFirstChild(transform_node) ==
    IF transform_node.node_type.tag # "Transform" THEN None
    ELSE IF Len(transform_node.children) = 0 THEN None
    ELSE IF transform_node.children[1].node_type.tag # "Shape" THEN None
    ELSE Some([id |-> transform_node.children[1].node_type.id[1],
               pos |-> transform_node.node_type.transform[1].translation,
               layer |-> Some(transform_node.node_type.transform[1].layer)])

\* VoxFile::check_transform: Some((id, pos, layer)) or None
CheckTransform(transform_node) ==
    IF transform_node.node_type.tag # "Transform" THEN None
    ELSE IF ~HasChildShape(transform_node) THEN None
    ELSE IF transform_node.children[1].node_type.tag # "Shape" THEN None
    ELSE Some([id |-> transform_node.children[1].node_type.id[1],
               pos |-> transform_node.node_type.transform[1].translation,
               layer |-> Some(transform_node.node_type.transform[1].layer)])

\* a change_model_data without the id test
ChangeModelDataAll(ms, id, pos, layer) ==
    [i \in 1..Len(ms) |-> [ms[i] EXCEPT !.position = pos, !.layer = layer]]

\* the model list after VoxFile::change_model_data(id, pos, layer)
ChangeModelData(ms, id, pos, layer) ==
    [i \in 1..Len(ms) |->
        IF ms[i].id = id THEN [ms[i] EXCEPT !.position = pos, !.layer = layer]
        ELSE ms[i]]

\* Node::get_child_data_to_models: the node itself, then its children in order
RECURSIVE GetChildDataToModels(_, _)
RECURSIVE GetChildrenData(_, _, _)
GetChildDataToModels(node, ms) ==
    LET ct == CheckTransform(node)
        ms1 == IF ct = None THEN ms
               ELSE ChangeModelData(ms, ct[1].id, ct[1].pos, ct[1].layer)
    IN  GetChildrenData(node.children, 1, ms1)

GetChildrenData(children, i, ms) ==
    IF i > Len(children) THEN ms
    ELSE GetChildrenData(children, i + 1, GetChildDataToModels(children[i], ms))

\* a get_node_data that walks the tree itself, taken out of the container,
\* instead of a clone of it
GetNodeDataTaking(root, ms) ==
    [models |-> GetChildDataToModels(root, ms),
     root_node |-> NodeNew(NodeTypeTransform(TransformDefault), NodeAttributesNew)]

\* VoxFile::get_node_data: root_node.clone().get_child_data_to_models(self)
GetNodeData(root, ms) ==
    [models |-> GetChildDataToModels(root, ms), root_node |-> root]

\* VoxFile::make_nodes
make_nodes ==
    /\ op' = "make_nodes"
    /\ result' = "Ok"
    /\ root_node' = MakeNodes(root_node, models)
    /\ runs' = 0
    /\ UNCHANGED <<overflow_checks, models, palette, layers, modelVars, riffVars, codecVars>>

\* VoxFile::get_node_data
get_node_data ==
    /\ op' = "get_node_data"
    /\ result' = "Ok"
    /\ LET r == GetNodeData(root_node, models)
       IN  models' = r.models /\ root_node' = r.root_node
    /\ runs' = IF runs < 2 THEN runs + 1 ELSE runs
    /\ UNCHANGED <<overflow_checks, palette, layers, modelVars, riffVars, codecVars>>

\* VoxFile::change_model_data(id, pos, layer)
change_model_data(id, pos, layer) ==
    /\ op' = "change_model_data"
    /\ result' = "Ok"
    /\ models' = ChangeModelData(models, id, pos, layer)
    /\ runs' = 0
    /\ UNCHANGED <<overflow_checks, palette, root_node, layers, modelVars, riffVars, codecVars>>

\* vox.models.push(Model::new(x, y, z))
push_new(x, y, z) ==
    /\ Len(models) < MaxModels
    /\ op' = "push_new"
    /\ result' = "Ok"
    /\ models' = Append(models, ModelNew(x, y, z))
    /\ runs' = 0
    /\ UNCHANGED <<overflow_checks, palette, root_node, layers, modelVars, riffVars, codecVars>>

\* model.position = ..; model.rotation = ..; model.layer = ..  (public fields)
set_placement(i, p) ==
    /\ i \in 1..Len(models)
    /\ op' = "set_placement"
    /\ result' = "Ok"
    /\ models' = [models EXCEPT ![i].position = p.position, ![i].rotation = p.rotation,
                                ![i].layer = p.layer]
    /\ runs' = 0
    /\ UNCHANGED <<overflow_checks, palette, root_node, layers, modelVars, riffVars, codecVars>>

(* The containers tried *)

Pos123 == <<1, 2, 3>>
Placements ==
    {[position |-> None, rotation |-> None, layer |-> None],
     [position |-> Some(Pos123), rotation |-> Some(4), layer |-> Some(2)],
     [position |-> None, rotation |-> Some(4), layer |-> Some(0)]}
IdVals == {0, 3}

Placed(m, p) == [m EXCEPT !.position = p.position, !.rotation = p.rotation, !.layer = p.layer]

\* models read from a file (ids given by the loader), placed through their fields
LoadedModels == {Placed(ModelRead(<<1, 1, 1>>, << >>, id), p) : id \in IdVals, p \in Placements}

RECURSIVE ModelLists(_)
ModelLists(k) ==
    IF k = 0 THEN {<< >>}
    ELSE ModelLists(k - 1) \cup {Append(l, m) : l \in ModelLists(k - 1), m \in LoadedModels}

TransformNode(t, children) ==
    [node_type |-> NodeTypeTransform(t), attributes |-> NodeAttributesNew, children |-> children]
GroupNode(children) ==
    [node_type |-> NodeTypeGroup, attributes |-> NodeAttributesNew, children |-> children]
ShapeNode(id) == NodeNew(NodeTypeShape(id), NodeAttributesNew)

T123 == Transform(2, None, Some(Pos123))
\* a Transform with translation (1,2,3) over the Shape of model 3
TreeSingle == TransformNode(T123, <<ShapeNode(3)>>)
\* a Group of two Transforms without a Shape
TreeShapeless == GroupNode(<<TransformNode(T123, << >>), TransformNode(TransformDefault, << >>)>>)
\* one model placed twice, differently
TreeTwice ==
    TransformNode(TransformDefault,
        <<GroupNode(<<TransformNode(T123, <<ShapeNode(0)>>),
                      TransformNode(TransformDefault, <<ShapeNode(0)>>)>>)>>)
\* a Transform with two Shape children, a Group over a Shape, a Transform over a Group
TreeOdd ==
    GroupNode(<<TransformNode(T123, <<ShapeNode(0), ShapeNode(3)>>),
                GroupNode(<<ShapeNode(3)>>),
                TransformNode(T123, <<GroupNode(<<ShapeNode(0)>>)>>)>>)
SampleTrees == {TreeSingle, TreeShapeless, TreeTwice, TreeOdd}

ChangeInputs ==
    {<<0, Some(Pos123), Some(2)>>, <<3, None, None>>, <<7, Some(Pos123), Some(0)>>}

DefaultPalette == <<"default">>

----------------------------------------------------------------------------
(* src/src/riff.rs : the record readers.  A read returns [kind, v, cursor]:  *)
(* kind "Ok" with the record v and the cursor as the read leaves it, or kind *)
(* "Panic" (a slice past the end, an expect or an unwrap).                   *)

\* i32::from_le_bytes / i32::to_le_bytes (two's complement)
I32FromLe(b) ==
    b[1] + 256 * b[2] + 65536 * b[3]
        + 16777216 * (IF b[4] >= 128 THEN b[4] - 256 ELSE b[4])
I32ToLe(n) == <<n % 256, (n \div 256) % 256, (n \div 65536) % 256, (n \div 16777216) % 256>>

ReadOk(v, c) == [kind |-> "Ok", v |-> Some(v), cursor |-> c]
ReadPanic == [kind |-> "Panic", v |-> None, cursor |-> 0]

\* i32_from_vec(vec, pos): vec[pos..pos+4] panics past the end
I32FromVecOk(b, pos) == SliceOk(b, pos, pos + 4)
I32FromVec(b, pos) == I32FromLe(Slice(b, pos, pos + 4))

\* VoxString::new(size, content)
VoxStringNew(sz, content) == [size |-> sz, content |-> content]

\* a VoxString::read that takes the bytes as they are (no UTF-8 validation)
VoxStringReadUnchecked(b, c) ==
    IF ~SliceOk(b, c, c + 4) THEN ReadPanic
    ELSE LET sz == I32FromLe(Slice(b, c, c + 4))
         IN  IF ~SliceOk(b, 4 + c, 4 + sz + c) THEN ReadPanic
             ELSE ReadOk(VoxStringNew(sz, Slice(b, 4 + c, 4 + sz + c)), c + 4 + sz)

\* VoxString::read(input, cursor).  The lengths tried are far from 2^31, so
\* 4 + size + cursor does not overflow i32; a negative size makes the slice end
\* lie before its start, which panics.
VoxStringRead(b, c) ==
    IF ~SliceOk(b, c, c + 4) THEN ReadPanic
    ELSE LET sz == I32FromLe(Slice(b, c, c + 4))
         IN  IF ~SliceOk(b, 4 + c, 4 + sz + c) THEN ReadPanic
             ELSE IF ~Utf8Valid(Slice(b, 4 + c, 4 + sz + c), 1) THEN ReadPanic
             ELSE ReadOk(VoxStringNew(sz, Slice(b, 4 + c, 4 + sz + c)), c + 4 + sz)

\* VoxString::get_size
VoxStringGetSize(s) == 4 + s.size

\* VoxString::write
VoxStringWrite(s) == I32ToLe(s.size) \o s.content

\* the for loop of Dict::read: for _i in 0..size, a key and a value each round
RECURSIVE DictReadPairs(_, _, _, _, _)
DictReadPairs(b, c, n, i, pairs) ==
    IF i >= n THEN ReadOk(pairs, c)
    ELSE LET key == VoxStringRead(b, c)
         IN  IF key.kind = "Panic" THEN ReadPanic
             ELSE LET value == VoxStringRead(b, key.cursor)
                  IN  IF value.kind = "Panic" THEN ReadPanic
                      ELSE DictReadPairs(b, value.cursor, n, i + 1,
                                         Append(pairs, <<key.v[1], value.v[1]>>))

\* Dict::read(input, cursor)
DictRead(b, c) ==
    IF ~SliceOk(b, c, c + 4) THEN ReadPanic
    ELSE LET n == I32FromLe(Slice(b, c, c + 4))
             r == DictReadPairs(b, c + 4, n, 0, << >>)
         IN  IF r.kind = "Panic" THEN ReadPanic
             ELSE ReadOk([num_of_pairs |-> n, pairs |-> r.v[1]], r.cursor)

\* Dict::get_size
RECURSIVE DictPairsSize(_, _)
DictPairsSize(pairs, i) ==
    IF i > Len(pairs) THEN 0
    ELSE VoxStringGetSize(pairs[i][1]) + VoxStringGetSize(pairs[i][2])
             + DictPairsSize(pairs, i + 1)
DictGetSize(d) == 4 + DictPairsSize(d.pairs, 1)

\* Dict::write
RECURSIVE DictPairsWrite(_, _)
DictPairsWrite(pairs, i) ==
    IF i > Len(pairs) THEN << >>
    ELSE VoxStringWrite(pairs[i][1]) \o VoxStringWrite(pairs[i][2])
             \o DictPairsWrite(pairs, i + 1)
DictWrite(d) == I32ToLe(d.num_of_pairs) \o DictPairsWrite(d.pairs, 1)

Tag_MATL == <<77, 65, 84, 76>>

\* write_string_literal(writer, name): the bytes of the name
WriteStringLiteral(name) == name

\* i32_to_array(n): the 4 little-endian bytes of n
I32ToArray(n) == I32ToLe(n)

\* write_chunk(name, size, children_size)
WriteChunk(name, sz, children_size) ==
    WriteStringLiteral(name) \o I32ToArray(sz) \o I32ToArray(children_size)

\* nTRN::read(input, cursor)
nTRNRead(b, c) ==
    LET p == c + 12
    IN  IF ~I32FromVecOk(b, p) THEN ReadPanic
        ELSE LET node_attributes == DictRead(b, p + 4)
             IN  IF node_attributes.kind = "Panic" THEN ReadPanic
                 ELSE LET q == node_attributes.cursor
                      IN  IF \/ ~I32FromVecOk(b, q) \/ ~I32FromVecOk(b, q + 4)
                             \/ ~I32FromVecOk(b, q + 8) \/ ~I32FromVecOk(b, q + 12)
                          THEN ReadPanic
                          ELSE LET frame_attributes == DictRead(b, q + 16)
                               IN  IF frame_attributes.kind = "Panic" THEN ReadPanic
                                   ELSE ReadOk([node_id |-> I32FromVec(b, p),
                                                node_attributes |-> node_attributes.v[1],
                                                child_node_id |-> I32FromVec(b, q),
                                                reserved_id |-> I32FromVec(b, q + 4),
                                                layer_id |-> I32FromVec(b, q + 8),
                                                num_of_frames |-> I32FromVec(b, q + 12),
                                                frame_attributes |-> frame_attributes.v[1]],
                                               frame_attributes.cursor)

\* nTRN::get_size
nTRNGetSize(r) == 20 + DictGetSize(r.node_attributes) + DictGetSize(r.frame_attributes)

\* nTRN::write
nTRNWrite(r) ==
    WriteChunk(Tag_nTRN, nTRNGetSize(r), 0)
        \o I32ToLe(r.node_id) \o DictWrite(r.node_attributes)
        \o I32ToLe(r.child_node_id) \o I32ToLe(r.reserved_id)
        \o I32ToLe(r.layer_id) \o I32ToLe(r.num_of_frames)
        \o DictWrite(r.frame_attributes)

\* the for loop of nGRP::read: for _i in 0..num_of_children_nodes
RECURSIVE ReadChildIds(_, _, _, _, _)
ReadChildIds(b, c, n, i, child_id) ==
    IF i >= n THEN ReadOk(child_id, c)
    ELSE IF ~I32FromVecOk(b, c) THEN ReadPanic
    ELSE ReadChildIds(b, c + 4, n, i + 1, Append(child_id, I32FromVec(b, c)))

\* nGRP::read(input, cursor): the cursor stays on num_of_children_nodes when the
\* loop over the child ids starts
nGRPRead(b, c) ==
    LET p == c + 12
    IN  IF ~I32FromVecOk(b, p) THEN ReadPanic
        ELSE LET node_attributes == DictRead(b, p + 4)
             IN  IF node_attributes.kind = "Panic" THEN ReadPanic
                 ELSE LET q == node_attributes.cursor
                      IN  IF ~I32FromVecOk(b, q) THEN ReadPanic
                          ELSE LET ids == ReadChildIds(b, q, I32FromVec(b, q), 0, << >>)
                               IN  IF ids.kind = "Panic" THEN ReadPanic
                                   ELSE ReadOk([node_id |-> I32FromVec(b, p),
                                                node_attributes |-> node_attributes.v[1],
                                                num_of_children_nodes |-> I32FromVec(b, q),
                                                child_id |-> ids.v[1]],
                                               ids.cursor)

\* an nGRP::get_size that leaves the child ids out
nGRPGetSizeNoChildren(r) == 8 + DictGetSize(r.node_attributes)

\* nGRP::get_size
nGRPGetSize(r) == 8 + DictGetSize(r.node_attributes) + Len(r.child_id) * 4

RECURSIVE ChildIdsWrite(_, _)
ChildIdsWrite(child_id, i) ==
    IF i > Len(child_id) THEN << >>
    ELSE I32ToLe(child_id[i]) \o ChildIdsWrite(child_id, i + 1)

\* nGRP::write
nGRPWrite(r) ==
    WriteChunk(Tag_nGRP, nGRPGetSize(r), 0)
        \o I32ToLe(r.node_id) \o DictWrite(r.node_attributes)
        \o I32ToLe(r.num_of_children_nodes) \o ChildIdsWrite(r.child_id, 1)

\* nSHP::read(input, cursor): the cursor stays on model_id when the model
\* attributes are read
nSHPRead(b, c) ==
    LET p == c + 12
    IN  IF ~I32FromVecOk(b, p) THEN ReadPanic
        ELSE LET node_attributes == DictRead(b, p + 4)
             IN  IF node_attributes.kind = "Panic" THEN ReadPanic
                 ELSE LET q == node_attributes.cursor
                      IN  IF ~I32FromVecOk(b, q) \/ ~I32FromVecOk(b, q + 4) THEN ReadPanic
                          ELSE LET model_attributes == DictRead(b, q + 4)
                               IN  IF model_attributes.kind = "Panic" THEN ReadPanic
                                   ELSE ReadOk([node_id |-> I32FromVec(b, p),
                                                node_attributes |-> node_attributes.v[1],
                                                num_of_models |-> I32FromVec(b, q),
                                                model_id |-> I32FromVec(b, q + 4),
                                                model_attributes |-> model_attributes.v[1]],
                                               model_attributes.cursor)

\* nSHP::get_size
nSHPGetSize(r) == 12 + DictGetSize(r.node_attributes) + DictGetSize(r.model_attributes)

\* nSHP::write
nSHPWrite(r) ==
    WriteChunk(Tag_nSHP, nSHPGetSize(r), 0)
        \o I32ToLe(r.node_id) \o DictWrite(r.node_attributes)
        \o I32ToLe(r.num_of_models) \o I32ToLe(r.model_id)
        \o DictWrite(r.model_attributes)

\* MATL::read(input, cursor)
MATLRead(b, c) ==
    LET p == c + 12
    IN  IF ~I32FromVecOk(b, p) THEN ReadPanic
        ELSE LET properties == DictRead(b, p + 4)
             IN  IF properties.kind = "Panic" THEN ReadPanic
                 ELSE ReadOk([material_id |-> I32FromVec(b, p),
                              properties |-> properties.v[1]],
                             properties.cursor)

\* MATL::get_size
MATLGetSize(r) == 4 + DictGetSize(r.properties)

\* MATL::write
MATLWrite(r) ==
    WriteChunk(Tag_MATL, MATLGetSize(r), 0)
        \o I32ToLe(r.material_id) \o DictWrite(r.properties)

(* The calls.  The record last read is kept as Some([type, v]). *)

Rec(type, v) == Some([type |-> type, v |-> v])

\* a read of a record of the given type: on a panic nothing is returned
ReadCall(type, r) ==
    /\ Running
    /\ result' = r.kind
    /\ cursor' = IF r.kind = "Ok" THEN r.cursor ELSE cursor
    /\ record' = IF r.kind = "Ok" THEN Rec(type, r.v[1]) ELSE record
    /\ UNCHANGED <<overflow_checks, contents, find_call, count_call, output, marks,
                   modelVars, voxVars>>

\* record.write(buf_writer) for the record held, of the given type
WriteCall(type, bytes) ==
    /\ Running
    /\ record # None
    /\ record[1].type = type
    /\ Len(marks) < MaxWrites
    /\ result' = "Ok"
    /\ output' = output \o bytes
    /\ marks' = Append(marks, Len(output))
    /\ UNCHANGED <<overflow_checks, contents, find_call, count_call, cursor, record,
                   modelVars, voxVars>>

VoxString_read == op' = "VoxString_read" /\ ReadCall("VoxString", VoxStringRead(contents, cursor))
Dict_read == op' = "Dict_read" /\ ReadCall("Dict", DictRead(contents, cursor))
nTRN_read == op' = "nTRN_read" /\ ReadCall("nTRN", nTRNRead(contents, cursor))
nGRP_read == op' = "nGRP_read" /\ ReadCall("nGRP", nGRPRead(contents, cursor))
nSHP_read == op' = "nSHP_read" /\ ReadCall("nSHP", nSHPRead(contents, cursor))
MATL_read == op' = "MATL_read" /\ ReadCall("MATL", MATLRead(contents, cursor))

VoxString_write ==
    op' = "VoxString_write" /\ WriteCall("VoxString", VoxStringWrite(record[1].v))
Dict_write == op' = "Dict_write" /\ WriteCall("Dict", DictWrite(record[1].v))
nTRN_write == op' = "nTRN_write" /\ WriteCall("nTRN", nTRNWrite(record[1].v))
nGRP_write == op' = "nGRP_write" /\ WriteCall("nGRP", nGRPWrite(record[1].v))
nSHP_write == op' = "nSHP_write" /\ WriteCall("nSHP", nSHPWrite(record[1].v))
MATL_write == op' = "MATL_write" /\ WriteCall("MATL", MATLWrite(record[1].v))

\* the stream written so far is read back (read_to_end) and the cursor is put
\* on the start of the k-th record written
reopen(k) ==
    /\ Running
    /\ k \in 1..Len(marks)
    /\ op' = "reopen"
    /\ result' = "Ok"
    /\ contents' = output
    /\ cursor' = marks[k]
    /\ UNCHANGED <<overflow_checks, find_call, count_call, record, output, marks,
                   modelVars, voxVars>>

(* The buffers and records tried *)

Str_hi == <<104, 105>>
Str_t == <<95, 116>>
Str_r == <<95, 114>>
Str_1 == <<49>>
Str_e_acute == <<195, 169>>

StrBytes(content) == I32ToLe(Len(content)) \o content

MinusOne == <<255, 255, 255, 255>>

StringBodies ==
    {StrBytes(Str_hi), StrBytes(<< >>), StrBytes(Str_e_acute),
     <<2, 0, 0, 0, 104>>, <<1, 0, 0, 0, 255>>, MinusOne}

DictBytes0 == I32ToLe(0)
DictBytes1 == I32ToLe(1) \o StrBytes(Str_t) \o StrBytes(Str_1)
DictBytes2 ==
    I32ToLe(2) \o StrBytes(Str_t) \o StrBytes(Str_1) \o StrBytes(Str_r) \o StrBytes(Str_hi)
DictBodies == {DictBytes0, DictBytes1, DictBytes2, MinusOne, I32ToLe(1) \o StrBytes(Str_t)}

\* a chunk as it lies in a file: tag, content size, children size 0, content
ChunkOf(tag, content) == tag \o I32ToLe(Len(content)) \o I32ToLe(0) \o content

nTRNBodies ==
    {ChunkOf(Tag_nTRN, I32ToLe(0) \o a \o I32ToLe(1) \o MinusOne \o I32ToLe(l)
                           \o I32ToLe(1) \o f) :
        a \in {DictBytes0, DictBytes1}, l \in {-1, 0}, f \in {DictBytes2}}
nGRPBodies ==
    {ChunkOf(Tag_nGRP, I32ToLe(1) \o a \o ids) :
        a \in {DictBytes0, DictBytes1},
        ids \in {I32ToLe(0), I32ToLe(1) \o I32ToLe(7), I32ToLe(2) \o I32ToLe(5) \o I32ToLe(6)}}
nSHPBodies ==
    {ChunkOf(Tag_nSHP, I32ToLe(2) \o a \o I32ToLe(1) \o I32ToLe(id) \o ma) :
        a \in {DictBytes0}, id \in {0, 1, 3}, ma \in {DictBytes0, DictBytes1}}
MATLBodies ==
    {ChunkOf(Tag_MATL, I32ToLe(id) \o p) : id \in {1}, p \in {DictBytes0, DictBytes2}}

SampleBodies ==
    StringBodies \cup DictBodies \cup nTRNBodies \cup nGRPBodies \cup nSHPBodies
        \cup MATLBodies

StartCursors == {0, 8}
Lead(c) == IF c = 0 THEN << >> ELSE OuterHeader
Tails == {<< >>, <<1, 0, 0, 0>>}

\* a dictionary produced by Dict::read
DictOf(bytes) == DictRead(bytes, 0).v[1]

SampleRecords ==
    {Rec("nTRN", [node_id |-> 0, node_attributes |-> DictOf(DictBytes1),
                  child_node_id |-> 1, reserved_id |-> -1, layer_id |-> 0,
                  num_of_frames |-> 1, frame_attributes |-> DictOf(DictBytes2)]),
     Rec("nGRP", [node_id |-> 1, node_attributes |-> DictOf(DictBytes0),
                  num_of_children_nodes |-> 0, child_id |-> << >>]),
     Rec("nGRP", [node_id |-> 1, node_attributes |-> DictOf(DictBytes1),
                  num_of_children_nodes |-> 2, child_id |-> <<5, 6>>]),
     Rec("nSHP", [node_id |-> 2, node_attributes |-> DictOf(DictBytes0),
                  num_of_models |-> 1, model_id |-> 0,
                  model_attributes |-> DictOf(DictBytes0)]),
     Rec("nSHP", [node_id |-> 2, node_attributes |-> DictOf(DictBytes0),
                  num_of_models |-> 1, model_id |-> 3,
                  model_attributes |-> DictOf(DictBytes1)]),
     Rec("MATL", [material_id |-> 1, properties |-> DictOf(MinusOne)])}

----------------------------------------------------------------------------
(* Specifications *)

NoFindCall == [name |-> << >>, number |-> 0, result |-> "None", pos |-> 0]
NoCountCall == [name |-> << >>, result |-> "None", n |-> 0]
NoNode == << >>

\* Model::new(x, y, z): the given size, no voxels
InitModel ==
    /\ overflow_checks \in BOOLEAN
    /\ op = "new"
    /\ result = "None"
    /\ size \in Sizes
    /\ voxels = << >>
    /\ contents = << >>
    /\ find_call = NoFindCall
    /\ count_call = NoCountCall
    /\ models = << >>
    /\ palette = DefaultPalette
    /\ root_node = NoNode
    /\ layers = << >>
    /\ runs = 0
    /\ cursor = 0
    /\ record = None
    /\ output = << >>
    /\ marks = << >>

NextModel ==
    \/ \E p \in Positions, i \in IndexVals \ {0} : add_voxel(Voxel(p[1], p[2], p[3], i))
    \/ \E p \in Positions, i \in IndexVals : add_voxel_at_pos(p[1], p[2], p[3], i)
    \/ \E c \in Cubes, i \in IndexVals : add_cube(c[1], c[2], i)
    \/ \E sz \in Sizes \cup {<<MaxSize + 1, 1, 1>>} : set_size(sz[1], sz[2], sz[3])
    \/ auto_size
    \/ clear_voxels
    \/ \E c \in RetainIndexVals : retain_voxels(c)

SpecModel == InitModel /\ [][NextModel]_vars

\* a buffer read from a file, then calls of the two scanners on it
InitRiff ==
    /\ overflow_checks = FALSE
    /\ op = "new"
    /\ result = "None"
    /\ size = <<1, 1, 1>>
    /\ voxels = << >>
    /\ contents \in Buffers(MaxChunks)
    /\ find_call = NoFindCall
    /\ count_call = NoCountCall
    /\ models = << >>
    /\ palette = DefaultPalette
    /\ root_node = NoNode
    /\ layers = << >>
    /\ runs = 0
    /\ cursor = 0
    /\ record = None
    /\ output = << >>
    /\ marks = << >>

NextRiff ==
    \/ \E name \in NameVals, number \in 1..(MaxChunks + 1) : find_chunk(name, number)
    \/ \E name \in NameVals : num_of_chunks(name)

SpecRiff == InitRiff /\ [][NextRiff]_vars

\* a container as loaded: its models, and the tree parsed from the file
InitVox ==
    /\ overflow_checks = FALSE
    /\ op = "new"
    /\ result = "None"
    /\ size = <<1, 1, 1>>
    /\ voxels = << >>
    /\ contents = << >>
    /\ find_call = NoFindCall
    /\ count_call = NoCountCall
    /\ models \in ModelLists(MaxModels)
    /\ palette = DefaultPalette
    /\ root_node \in SampleTrees
    /\ layers = << >>
    /\ runs = 0
    /\ cursor = 0
    /\ record = None
    /\ output = << >>
    /\ marks = << >>

NextVox ==
    \/ make_nodes
    \/ get_node_data
    \/ \E c \in ChangeInputs : change_model_data(c[1], c[2], c[3])
    \/ push_new(1, 1, 1)
    \/ \E i \in 1..MaxModels, p \in Placements : set_placement(i, p)

SpecVox == InitVox /\ [][NextVox]_vars

\* a buffer read from a file with the cursor on a record, or a record built in
\* memory; an output stream that is empty or holds the outer header
InitCodec ==
    /\ overflow_checks = FALSE
    /\ op = "new"
    /\ result = "None"
    /\ size = <<1, 1, 1>>
    /\ voxels = << >>
    /\ find_call = NoFindCall
    /\ count_call = NoCountCall
    /\ models = << >>
    /\ palette = DefaultPalette
    /\ root_node = NoNode
    /\ layers = << >>
    /\ runs = 0
    /\ \/ /\ \E c \in StartCursors, body \in SampleBodies, t \in Tails :
                contents = Lead(c) \o body \o t /\ cursor = c
          /\ record = None
       \/ /\ contents = << >>
          /\ cursor = 0
          /\ record \in SampleRecords
    /\ output \in {<< >>, OuterHeader}
    /\ marks = << >>

NextCodec ==
    \/ VoxString_read
    \/ Dict_read
    \/ nTRN_read
    \/ nGRP_read
    \/ nSHP_read
    \/ MATL_read
    \/ VoxString_write
    \/ Dict_write
    \/ nTRN_write
    \/ nGRP_write
    \/ nSHP_write
    \/ MATL_write
    \/ \E k \in 1..MaxWrites : reopen(k)

SpecCodec == InitCodec /\ [][NextCodec]_vars

----------------------------------------------------------------------------
(* Claims about Model, checked under SpecModel *)

\* what C1 allows of an insertion of a voxel at pos
InsertChecked(pos) ==
    \/ /\ result' = "Ok"
       /\ Len(voxels') = Len(voxels) + 1
       /\ SubSeq(voxels', 1, Len(voxels)) = voxels
       /\ voxels'[Len(voxels')].position = pos
       /\ InExtents(pos, size)
       /\ size' = size
    \/ /\ result' = "Err"
       /\ voxels' = voxels
       /\ size' = size

\* C1: add_voxel and add_voxel_at_pos, given any position with coordinates in
\* 0..255 and a valid palette index, either return Ok having appended exactly that
\* voxel, which lies inside the extents, or return Err leaving voxels and size as
\* they were; they neither abort nor accept a voxel outside the extents.
C1_InsertCheckedOrRejected ==
    [][\A p \in Positions, i \in IndexVals \ {0} :
          (add_voxel(Voxel(p[1], p[2], p[3], i)) \/ add_voxel_at_pos(p[1], p[2], p[3], i))
              => InsertChecked(p)]_vars

\* C2: add_cube never partially applies: either every voxel of [start, end) is
\* appended and each lies inside the extents, or the call fails and the voxel list
\* is what it was before the call.
C2_CubeAllOrNothing ==
    [][\A c \in Cubes, i \in IndexVals \ {0} :
          add_cube(c[1], c[2], i) =>
              \/ /\ result' = "Ok"
                 /\ voxels' = voxels \o [k \in 1..Len(CubePositions(c[1], c[2])) |->
                                            LET q == CubePositions(c[1], c[2])[k]
                                            IN  Voxel(q[1], q[2], q[3], i)]
                 /\ \A k \in 1..Len(CubePositions(c[1], c[2])) :
                        InExtents(CubePositions(c[1], c[2])[k], size)
              \/ /\ result' \in {"Err", "Panic"}
                 /\ voxels' = voxels]_vars

Max2(a, b) == IF a > b THEN a ELSE b

RECURSIVE LargestPos(_, _, _, _)
LargestPos(vs, i, k, acc) ==
    IF i > Len(vs) THEN acc
    ELSE LargestPos(vs, i + 1, k, Max2(acc, vs[i].position[k]))

\* the extents that fit vs exactly: largest coordinate + 1, (1,1,1) without voxels
FitSize(vs) ==
    IF vs = << >> THEN <<1, 1, 1>>
    ELSE <<LargestPos(vs, 1, 1, 0) + 1, LargestPos(vs, 1, 2, 0) + 1,
           LargestPos(vs, 1, 3, 0) + 1>>

\* C4: auto_size leaves the smallest coordinate on each axis 0 and the size on each
\* axis the largest coordinate + 1 ((1,1,1) without voxels), and a second auto_size
\* yields the same size and the same voxel list.
C4_AutoSizeFitsAndIdempotent ==
    [][auto_size =>
          /\ result' = "Ok"
          /\ size' = FitSize(voxels')
          /\ voxels' # << >> => \A k \in 1..3 : SmallestPos(voxels', 1, k, U8Max) = 0
          /\ LET again == AutoSize(voxels', size', overflow_checks)
             IN  again.result = "Ok" /\ again.voxels = voxels' /\ again.size = size']_vars

\* C11: in every state reached from Model::new by add_voxel, add_voxel_at_pos,
\* add_cube, set_size, auto_size, clear_voxels and retain_voxels, every voxel has
\* each coordinate strictly below the size on that axis, and each extent of the
\* size is at most 256.
C11_VoxelsInsideExtents ==
    /\ \A i \in 1..Len(voxels) : InExtents(voxels[i].position, size)
    /\ \A k \in 1..3 : size[k] <= MaxSize

----------------------------------------------------------------------------
(* Claims about the chunk scanners, checked under SpecRiff *)

\* C3: on a buffer whose chunks tile it exactly (none at all included), for every
\* tag, with c = num_of_chunks(buffer, tag): find_chunk(buffer, tag, n) returns Ok
\* for every n in 1..c and Err for every n > c.
C3_FindAgreesWithCount ==
    (/\ TilesFrom(contents, 8)
     /\ find_call.result # "None"
     /\ count_call.result # "None"
     /\ find_call.name = count_call.name)
        => /\ count_call.result = "Ok"
           /\ find_call.number <= count_call.n => find_call.result = "Ok"
           /\ find_call.number > count_call.n => find_call.result = "Err"

\* the position of the first complete chunk header, on the scan from pos, whose
\* declared size carries the scan position past the end of b; -1 if there is none
RECURSIVE BadHeader(_, _)
BadHeader(b, pos) ==
    IF pos + 12 > Len(b) THEN -1
    ELSE LET np == pos + 12 + U32FromLe(Slice(b, pos + 4, pos + 8))
         IN  IF np > Len(b) THEN pos ELSE BadHeader(b, np)

\* C12: on a buffer in which some chunk's declared size carries the scan position
\* past the end of the buffer, num_of_chunks aborts and find_chunk aborts, unless
\* find_chunk returns Ok for a chunk it located no later than the bad header;
\* neither returns a count or Err computed from the chunks scanned so far.
C12_OverrunIsFatal ==
    BadHeader(contents, 8) # -1 =>
        /\ count_call.result # "None" => count_call.result = "Panic"
        /\ find_call.result # "None" =>
              \/ find_call.result = "Panic"
              \/ find_call.result = "Ok" /\ find_call.pos <= BadHeader(contents, 8)

----------------------------------------------------------------------------
(* Claims about the scene graph, checked under SpecVox *)

DistinctIds(ms) == \A i, j \in 1..Len(ms) : i # j => ms[i].id # ms[j].id

SamePlacement(a, b) ==
    a.position = b.position /\ a.rotation = b.rotation /\ a.layer = b.layer

\* C5: with pairwise distinct model ids, reconciling the tree make_nodes builds
\* from the models leaves every model's position, rotation and layer as they were.
C5_PlacementRoundTrip ==
    [][(get_node_data /\ root_node = MakeNodes(root_node, models) /\ DistinctIds(models))
          => /\ Len(models') = Len(models)
             /\ \A i \in 1..Len(models) : SamePlacement(models'[i], models[i])]_vars

\* C6: get_node_data never modifies the tree, and a second run in a row leaves
\* every model's position and layer as the first run left them.
C6_ReconcileIdempotent ==
    [][get_node_data =>
          /\ root_node' = root_node
          /\ runs >= 1 =>
                /\ Len(models') = Len(models)
                /\ \A i \in 1..Len(models) :
                      /\ models'[i].position = models[i].position
                      /\ models'[i].layer = models[i].layer]_vars

\* a second run in a row has happened on a tree that places a model of the list
C6_Witness ==
    /\ op = "get_node_data"
    /\ runs = 2
    /\ root_node = TreeTwice
    /\ \E i \in 1..Len(models) : models[i].id = 0 /\ models[i].layer = Some(0)

\* every node of the tree under n, n included
RECURSIVE NodesOf(_)
NodesOf(n) == {n} \cup UNION {NodesOf(n.children[i]) : i \in 1..Len(n.children)}

IsTransformOverShape(n) ==
    /\ n.node_type.tag = "Transform"
    /\ Len(n.children) = 1
    /\ n.children[1].node_type.tag = "Shape"

\* C7: check_transform returns Some((id, translation, Some(layer))) exactly on a
\* Transform whose single child is a Shape with that id, and None on every other
\* node; reconciling a Transform with translation (1,2,3) over the Shape of model 3
\* sets model 3's position to (1,2,3), and a Group of Shape-less Transforms
\* changes no model.
C7_CheckTransformExact ==
    [][/\ \A n \in NodesOf(root_node') :
             CheckTransform(n) =
                 IF IsTransformOverShape(n)
                 THEN Some([id |-> n.children[1].node_type.id[1],
                            pos |-> n.node_type.transform[1].translation,
                            layer |-> Some(n.node_type.transform[1].layer)])
                 ELSE None
       /\ (get_node_data /\ root_node = TreeSingle) =>
             /\ Len(models') = Len(models)
             /\ \A i \in 1..Len(models) :
                   models'[i].position =
                       IF models[i].id = 3 THEN Some(Pos123) ELSE models[i].position
       /\ (get_node_data /\ root_node = TreeShapeless) => models' = models]_vars

\* model 3, unplaced before, has been placed at (1,2,3) by the single Transform
C7_Witness ==
    /\ op = "get_node_data"
    /\ runs = 1
    /\ root_node = TreeSingle
    /\ \E i \in 1..Len(models) :
          models[i].id = 3 /\ models[i].position = Some(Pos123) /\ models[i].rotation = None

\* C8: change_model_data(id, pos, layer) sets position and layer of the models
\* whose id is id and changes nothing else: not a model of another id, not the
\* size, voxels, rotation, name or id of a matching model, not the length or order
\* of the list, not the palette, the layers or the root node.
C8_ChangeModelDataFrame ==
    [][\A c \in ChangeInputs :
          change_model_data(c[1], c[2], c[3]) =>
              /\ Len(models') = Len(models)
              /\ \A i \in 1..Len(models) :
                    IF models[i].id = c[1]
                    THEN models'[i] = [models[i] EXCEPT !.position = c[2], !.layer = c[3]]
                    ELSE models'[i] = models[i]
              /\ palette' = palette
              /\ layers' = layers
              /\ root_node' = root_node]_vars

\* change_model_data(0, ..) has run on a list holding model 0 and an unplaced model 3
C8_Witness ==
    /\ op = "change_model_data"
    /\ \E i, j \in 1..Len(models) :
          /\ models[i].id = 0 /\ models[i].position = Some(Pos123) /\ models[i].layer = Some(2)
          /\ models[j].id = 3 /\ models[j].position = None /\ models[j].layer = None

\* C9: after make_nodes the root is a Transform with default placement whose only
\* child is a Group with one child per model, in list order: a Transform with the
\* model's placement (layer 0 when unset) over one childless Shape with the model's
\* id; whatever the root was before is gone.
C9_MakeNodesShape ==
    [][make_nodes =>
          /\ root_node'.node_type = NodeTypeTransform(Transform(0, None, None))
          /\ Len(root_node'.children) = 1
          /\ LET g == root_node'.children[1]
             IN  /\ g.node_type.tag = "Group"
                 /\ Len(g.children) = Len(models)
                 /\ \A i \in 1..Len(models) :
                       LET t == g.children[i]
                       IN  /\ t.node_type.tag = "Transform"
                           /\ t.node_type.transform[1].layer =
                                  (IF models[i].layer = None THEN 0 ELSE models[i].layer[1])
                           /\ t.node_type.transform[1].rotation = models[i].rotation
                           /\ t.node_type.transform[1].translation = models[i].position
                           /\ Len(t.children) = 1
                           /\ t.children[1].node_type = NodeTypeShape(models[i].id)
                           /\ t.children[1].children = << >>]_vars

\* make_nodes has run on two models, one unplaced and one placed
C9_Witness ==
    /\ op = "make_nodes"
    /\ Len(models) = 2
    /\ models[1].layer = None /\ models[1].position = None
    /\ models[2].position = Some(Pos123) /\ models[2].rotation = Some(4)
    /\ Len(root_node.children[1].children) = 2

\* the model ids the Shape nodes of the tree carry, one per Shape node
RECURSIVE ShapeIds(_)
RECURSIVE ShapeIdsOf(_, _)
ShapeIds(n) ==
    (IF n.node_type.tag = "Shape" THEN <<n.node_type.id[1]>> ELSE << >>)
        \o ShapeIdsOf(n.children, 1)
ShapeIdsOf(children, i) ==
    IF i > Len(children) THEN << >>
    ELSE ShapeIds(children[i]) \o ShapeIdsOf(children, i + 1)

\* C10: after models built with Model::new are appended and make_nodes runs, every
\* Shape node carries the id of a model of the list and no two carry the same id.
\* (A list of appended Model::new(1,1,1) is a list whose every model equals it.)
C10_ShapeIdsUnique ==
    [][(make_nodes /\ \A i \in 1..Len(models) : models[i] = ModelNew(1, 1, 1)) =>
          LET ids == ShapeIds(root_node')
          IN  /\ \A k \in 1..Len(ids) : \E i \in 1..Len(models) : models[i].id = ids[k]
              /\ \A k, l \in 1..Len(ids) : k # l => ids[k] # ids[l]]_vars

----------------------------------------------------------------------------
(* Claims about the record readers and writers, checked under SpecCodec *)

\* the u32 length L at c and the L bytes after it lie inside b (a length of 2^31
\* or more never does)
StringFits(b, c) ==
    /\ Slice(b, c, c + 4)[4] < 128
    /\ c + 4 + U32FromLe(Slice(b, c, c + 4)) <= Len(b)

\* C13: VoxString::read at cursor c on a buffer holding a little-endian length L
\* at c: when the L bytes after it lie inside the buffer and are valid UTF-8, it
\* returns a record whose content is exactly those bytes and whose get_size() is
\* 4+L, and leaves the cursor at c+4+L; otherwise it fails fatally and returns no
\* record.
C13_StringReadExact ==
    [][(VoxString_read /\ SliceOk(contents, cursor, cursor + 4)) =>
          LET L == U32FromLe(Slice(contents, cursor, cursor + 4))
          IN  IF /\ StringFits(contents, cursor)
                 /\ Utf8Valid(Slice(contents, cursor + 4, cursor + 4 + L), 1)
              THEN /\ result' = "Ok"
                   /\ record' # None
                   /\ record'[1].type = "VoxString"
                   /\ record'[1].v.content = Slice(contents, cursor + 4, cursor + 4 + L)
                   /\ VoxStringGetSize(record'[1].v) = 4 + L
                   /\ cursor' = cursor + 4 + L
              ELSE /\ result' = "Panic"
                   /\ record' = record
                   /\ cursor' = cursor]_vars

\* the string "hi" has been read from offset 8 of a buffer that goes on after it
C13_Witness ==
    /\ op = "VoxString_read"
    /\ result = "Ok"
    /\ record = Rec("VoxString", VoxStringNew(2, Str_hi))
    /\ cursor = 14
    /\ Len(contents) > 14

\* C14: for every Dict d produced by Dict::read, d.write emits exactly
\* d.get_size() bytes, and Dict::read on those bytes from the cursor c where they
\* start yields the same pairs in the same order, with num_of_pairs equal to the
\* number of pairs, and leaves the cursor at c + d.get_size(); a Dict with zero
\* pairs has get_size() = 4 and writes exactly the 4 bytes of a zero count.
C14_DictRoundTrip ==
    [][Dict_write =>
          LET d == record[1].v
              c == Len(output)
              back == DictRead(output', c)
          IN  /\ Len(output') = c + DictGetSize(d)
              /\ back.kind = "Ok"
              /\ back.v[1].pairs = d.pairs
              /\ back.v[1].num_of_pairs = Len(d.pairs)
              /\ back.cursor = c + DictGetSize(d)
              /\ d.pairs = << >> =>
                    /\ DictGetSize(d) = 4
                    /\ SubSeq(output', c + 1, c + 4) = <<0, 0, 0, 0>>]_vars

\* what C15 asks of the read of a chunk written at offset c from the record r
ReadsBack(back, r, c, sz) ==
    /\ back.kind = "Ok"
    /\ back.v[1] = r
    /\ back.cursor = c + 12 + sz

\* C15: for every nTRN, nGRP and nSHP record r, read with the cursor at the start
\* of the bytes r.write produced returns a record whose every field equals r's and
\* leaves the cursor at chunk start + 12 + r.get_size(), the first byte after the
\* chunk.
C15_ChunkReadInvertsWrite ==
    [][/\ nTRN_write =>
             ReadsBack(nTRNRead(output', Len(output)), record[1].v, Len(output),
                       nTRNGetSize(record[1].v))
       /\ nGRP_write =>
             ReadsBack(nGRPRead(output', Len(output)), record[1].v, Len(output),
                       nGRPGetSize(record[1].v))
       /\ nSHP_write =>
             ReadsBack(nSHPRead(output', Len(output)), record[1].v, Len(output),
                       nSHPGetSize(record[1].v))]_vars

\* the 12-byte header in front of bytes declares content size sz, which is the
\* number of bytes after the header, and children size 0
HeaderExact(bytes, sz) ==
    /\ Len(bytes) >= 12
    /\ U32FromLe(SubSeq(bytes, 5, 8)) = sz
    /\ sz = Len(bytes) - 12
    /\ SubSeq(bytes, 9, 12) = <<0, 0, 0, 0>>

\* C16: for every nTRN, nGRP, nSHP and MATL record whose dictionaries were
\* produced by Dict::read, the content size declared in the 12-byte header that
\* write emits, the record's get_size(), equals the number of bytes write emits
\* after that header, and the declared children size is 0.
C16_DeclaredSizeExact ==
    [][/\ nTRN_write =>
             HeaderExact(SubSeq(output', Len(output) + 1, Len(output')),
                         nTRNGetSize(record[1].v))
       /\ nGRP_write =>
             HeaderExact(SubSeq(output', Len(output) + 1, Len(output')),
                         nGRPGetSize(record[1].v))
       /\ nSHP_write =>
             HeaderExact(SubSeq(output', Len(output) + 1, Len(output')),
                         nSHPGetSize(record[1].v))
       /\ MATL_write =>
             HeaderExact(SubSeq(output', Len(output) + 1, Len(output')),
                         MATLGetSize(record[1].v))]_vars

\* an nGRP with an attribute pair and the children 5 and 6 has been written after
\* the outer header
C16_Witness ==
    /\ op = "nGRP_write"
    /\ record[1].v.child_id = <<5, 6>>
    /\ Len(record[1].v.node_attributes.pairs) = 1
    /\ marks = <<8>>
    /\ Len(output) = 8 + 12 + nGRPGetSize(record[1].v)

====
